---- MODULE Spec2Model ----
(***************************************************************************)
(* Model of synchronous_generator_oscillations_md.ipynb: the notebook's    *)
(* cells as steps of a state machine over the kernel's global names.       *)
(*                                                                         *)
(* Number representation.                                                  *)
(*  - Times are exact rationals [n |-> numerator, d |-> denominator] in    *)
(*    seconds; the float64 rounding of T / dt and of np.linspace is not    *)
(*    modelled.                                                            *)
(*  - Frequencies are fixed point: HzUnit steps per Hz.                    *)
(*    Multiplying by 2 * pi and dividing by it again is exact here; in     *)
(*    float64 it is exact up to one rounding step.                         *)
(*  - Angles are values of a small binary floating-point format: integers  *)
(*    (multiples of the smallest positive value) with at most MantBits     *)
(*    significant bits, results rounded to nearest, ties to even.  TwoPi   *)
(*    is the format's value of 2 * pi.                                     *)
(*  - A trajectory value is a record [c, v]: c = "fin" with the number v,  *)
(*    or c = "nan", "inf", "-inf" (v = 0).                                 *)
(*  - np.sin, np.exp and odeint are library code: sin is Bhaskara's        *)
(*    rational approximation, exp the quadratic Taylor polynomial (its     *)
(*    reciprocal for negative arguments) overflowing to inf above          *)
(*    ExpMaxArg, and odeint the trapezoid rule over the output grid.  The  *)
(*    solver's truncation error is not modelled.                           *)
(***************************************************************************)
EXTENDS Integers, Sequences, FiniteSets, TLC

VARIABLES
    cfg,        \* the literals written in the notebook's cells
    pc,         \* the next cell to execute, "run" while frames are drawn, or "failed"
    err,        \* the exception that stopped the run, or "none"
    defined,    \* the global names bound so far
    T, dt, nsamples, t,
    fbm, Afosc, fosc, damp,
    fdq, thetam0, sol, thetam, fm,
    solves,     \* per execution of the solve cell, the frames drawn before it
    tinst, yspeed, yangle,
    speed_line, angle_line, dq_theta,
    calls,      \* the frames rotor_position was called with, oldest first
    inv         \* independent invocations of the integrator (SpecConc)

vars == <<cfg, pc, err, defined, T, dt, nsamples, t, fbm, Afosc, fosc, damp,
          fdq, thetam0, sol, thetam, fm, solves, tinst, yspeed, yangle,
          speed_line, angle_line, dq_theta, calls, inv>>

-----------------------------------------------------------------------------
(* Bounds of the model. *)

\* T and dt range over -1 .. MaxT seconds.
MaxT == 5
\* damp is -MaxDamp, 0 or MaxDamp per second.
MaxDamp == 1
\* Calls of rotor_position in one run.
MaxCalls == 3
\* Significant bits of the floating-point format (53 in float64).
MantBits == 5
\* Fixed-point steps per Hz.
HzUnit == 4
\* np.exp overflows to inf for arguments above this (709.78 in float64).
ExpMaxArg == 2

-----------------------------------------------------------------------------
(* Arithmetic. *)

Abs(x) == IF x < 0 THEN -x ELSE x

Sign(x) == IF x < 0 THEN -1 ELSE IF x > 0 THEN 1 ELSE 0

\* n / d rounded to the nearest integer, halves away from zero (d > 0).
RoundDiv(n, d) == Sign(n) * ((2 * Abs(n) + d) \div (2 * d))

RECURSIVE Pow2(_)
Pow2(k) == IF k <= 0 THEN 1 ELSE 2 * Pow2(k - 1)

\* The spacing of the floating-point values around magnitude m, from s up.
RECURSIVE Ulp(_, _)
Ulp(m, s) == IF m < Pow2(MantBits) * s THEN s ELSE Ulp(m, 2 * s)

\* The integer n rounded to the floating-point format.
Fl(n) ==
    LET m == Abs(n)
        s == Ulp(m, 1)
        q == m \div s
        r == m % s
        up == (2 * r > s) \/ (2 * r = s /\ q % 2 = 1)
    IN Sign(n) * (IF up THEN q + 1 ELSE q) * s

\* pi = np.pi and 2 * pi in the format: mantissa 1.5, as 6.28 = 1.57 * 2^2.
Pi == 3 * Pow2(MantBits - 1)
TwoPi == 2 * Pi

Fin(n) == [c |-> "fin", v |-> n]
NaN == [c |-> "nan", v |-> 0]
PInf == [c |-> "inf", v |-> 0]
NInf == [c |-> "-inf", v |-> 0]
IsFin(x) == x.c = "fin"

None == "None"

\* int(a / b) of Python floats a, b (b # 0): the quotient truncated toward zero.
IntDiv(a, b) == Sign(a) * Sign(b) * (Abs(a) \div Abs(b))

\* linspace with endpoint=False: step = stop / num, the last point short of stop.
linspaceNoEndpoint(stop, num) ==
    [i \in 1..num |-> [n |-> (i - 1) * stop, d |-> IF num > 1 THEN num ELSE 1]]

\* np.linspace(0, stop, num) for num >= 0: step = stop / (num - 1), points
\* i * step; the single point of num = 1 is the start.
linspace(stop, num) ==
    [i \in 1..num |-> [n |-> (i - 1) * stop, d |-> IF num > 1 THEN num - 1 ELSE 1]]

\* np.sin(2 * pi * a / b) for b > 0, as <<numerator, denominator>>.
Sin2Pi(a, b) ==
    LET a1 == a % b
        pos == 2 * a1 <= b
        u == IF pos THEN a1 ELSE 2 * a1 - b
        v == IF pos THEN b ELSE 2 * b
        w == u * (v - 2 * u)
    IN <<(IF pos THEN 32 ELSE -32) * w, 5 * v * v - 8 * w>>

\* np.exp(p / q) for q > 0, as <<numerator, denominator>>; <<1, 0>> is inf.
Exp(p, q) ==
    IF p > ExpMaxArg * q THEN <<1, 0>>
    ELSE IF p >= 0 THEN <<2 * q * q + 2 * p * q + p * p, 2 * q * q>>
    ELSE <<2 * q * q, 2 * q * q - 2 * p * q + p * p>>

\* Afosc * np.sin(2 * pi * fosc * t) * np.exp(-t * damp), in HzUnit steps,
\* for amplitude A and oscillation frequency fo in HzUnit steps.
Oscillation(A, fo, d, tt) ==
    LET s == Sin2Pi(fo * tt.n, HzUnit * tt.d)
        e == Exp(-(tt.n * d), tt.d)
        a == A * s[1]
    IN IF e[2] = 0
       THEN (IF a = 0 THEN NaN ELSE IF a > 0 THEN PInf ELSE NInf)
       ELSE Fin(RoundDiv(a * e[1], s[2] * e[2]))

\* x + y for a number x and a trajectory value y.
AddTo(x, y) == IF IsFin(y) THEN Fin(x + y.v) ELSE y

\* k * y for k > 0.
Times(k, y) == IF IsFin(y) THEN Fin(k * y.v) ELSE y

\* y / k for k > 0 dividing y.
Over(y, k) == IF IsFin(y) THEN Fin(y.v \div k) ELSE y

\* The forcing with the reference frame speed left out.
ForcingNoRef(A, fo, d, tt, f, fref) == Times(TwoPi, AddTo(f, Oscillation(A, fo, d, tt)))

\* The body of diff_eq with the oscillation parameters given.
Forcing(A, fo, d, tt, f, fref) == Times(TwoPi, AddTo(f - fref, Oscillation(A, fo, d, tt)))

\* def diff_eq(y, t, f, fref): Afosc, fosc and damp are the module's globals.
diff_eq(y, tt, f, fref) == Forcing(Afosc, fosc, damp, tt, f, fref)

\* The trapezoid sums of the derivative samples dd over the grid tt, up to point i.
RECURSIVE TrapSum(_, _, _)
TrapSum(tt, dd, i) ==
    IF i <= 1 THEN 0
    ELSE TrapSum(tt, dd, i - 1) + (tt[i].n - tt[i - 1].n) * (dd[i].v + dd[i - 1].v)

\* The solution at the points of tt from the initial value y0 and the derivative
\* samples dd: the first row is y0 itself; a non-finite derivative makes the
\* values from there on nan.
Quadrature(y0, tt, dd) ==
    [i \in 1..Len(tt) |->
        IF i = 1 THEN Fin(y0)
        ELSE IF \E k \in 1..i : ~IsFin(dd[k]) THEN NaN
        ELSE Fin(Fl(y0 + RoundDiv(TrapSum(tt, dd, i), 2 * HzUnit * tt[1].d)))]

\* A solver that keeps its state between calls: it starts from the last value
\* of the solution it computed before.
odeintWarm(y0, tt, f, fref) ==
    Quadrature(IF sol # <<>> /\ IsFin(sol[Len(sol)]) THEN sol[Len(sol)].v ELSE y0, tt,
               [i \in 1..Len(tt) |-> diff_eq(Fin(y0), tt[i], f, fref)])

\* odeint(diff_eq, y0, t, args=(f, fref)) for a grid of at least one point.
odeint(y0, tt, f, fref) ==
    Quadrature(y0, tt, [i \in 1..Len(tt) |-> diff_eq(Fin(y0), tt[i], f, fref)])

\* math.fmod(a, b) for b > 0: exact, with the sign of a.
Fmod(a, b) == Sign(a) * (Abs(a) % b)

\* np.mod(x, b) for b > 0: the remainder of fmod, with b added to a negative one.
mod(x, b) ==
    IF ~IsFin(x) THEN NaN
    ELSE LET r == Fmod(x.v, b)
         IN IF r < 0 THEN Fin(Fl(r + b)) ELSE Fin(r)

\* np.mod(sol[1:, 0], 2 * pi): the first row dropped.
WrapFromSecond(s) == [i \in 1..(Len(s) - 1) |-> mod(s[i + 1], TwoPi)]

\* np.mod(sol[:, 0], 2 * pi)
Wrap(s) == [i \in 1..Len(s) |-> mod(s[i], TwoPi)]

\* diff_eq(None, t, f, fref) / (2 * pi), element by element.
Frequency(tt, f, fref) == [i \in 1..Len(tt) |-> Over(diff_eq(None, tt[i], f, fref), TwoPi)]

\* theta * 180 / pi, an exact rational for a finite theta.
Degrees(theta) == [c |-> theta.c, n |-> theta.v * 180, d |-> Pi]

-----------------------------------------------------------------------------
(* The notebook. *)

Configs ==
    [T : -1..MaxT, dt : -1..MaxT,
     fbm : {0, HzUnit}, Afosc : {0, 1}, fosc : {0, 1}, damp : {-MaxDamp, 0, MaxDamp},
     fdq : {0, HzUnit}, thetam0 : {-1, 0, TwoPi + 4}]

Idle == [i \in 1..2 |-> [pc |-> "idle"]]

Init ==
    /\ cfg \in Configs
    /\ pc = "sim"
    /\ err = "none"
    /\ defined = {}
    /\ T = 0 /\ dt = 0 /\ nsamples = 0 /\ t = <<>>
    /\ fbm = 0 /\ Afosc = 0 /\ fosc = 0 /\ damp = 0
    /\ fdq = 0 /\ thetam0 = 0 /\ sol = <<>> /\ thetam = <<>> /\ fm = <<>>
    /\ solves = <<>>
    /\ tinst = <<>> /\ yspeed = <<>> /\ yangle = <<>>
    /\ speed_line = <<>> /\ angle_line = <<>> /\ dq_theta = Fin(0)
    /\ calls = <<>>
    /\ inv = Idle

Raise(e) == pc' = "failed" /\ err' = e

genVars == <<fbm, Afosc, fosc, damp>>
solveVars == <<fdq, thetam0, sol, thetam, fm, solves>>
plotVars == <<tinst, yspeed, yangle, speed_line, angle_line, dq_theta, calls>>

\* T = 5.0; dt = 0.01; nsamples = int(T / dt) + 1; t = np.linspace(0, T, nsamples)
SimulationParameters ==
    /\ pc = "sim"
    /\ T' = cfg.T
    /\ dt' = cfg.dt
    /\ IF cfg.dt = 0
       THEN /\ Raise("ZeroDivisionError")
            /\ defined' = defined \cup {"T", "dt"}
            /\ UNCHANGED <<nsamples, t>>
       ELSE /\ nsamples' = IntDiv(cfg.T, cfg.dt) + 1
            /\ IF nsamples' < 0
               THEN /\ Raise("ValueError")
                    /\ defined' = defined \cup {"T", "dt", "nsamples"}
                    /\ UNCHANGED t
               ELSE /\ t' = linspace(cfg.T, nsamples')
                    /\ defined' = defined \cup {"T", "dt", "nsamples", "t"}
                    /\ pc' = "gen"
                    /\ UNCHANGED err
    /\ UNCHANGED <<cfg, genVars, solveVars, plotVars, inv>>

\* fbm = fb / pole_pairs; Afosc = 1.0 / pole_pairs; fosc = 5.0 / pole_pairs; damp = 0.0
GeneratorParameters ==
    /\ pc = "gen"
    /\ fbm' = cfg.fbm
    /\ Afosc' = cfg.Afosc
    /\ fosc' = cfg.fosc
    /\ damp' = cfg.damp
    /\ defined' = defined \cup {"fbm", "Afosc", "fosc", "damp"}
    /\ pc' = "solve"
    /\ UNCHANGED <<cfg, err, T, dt, nsamples, t, solveVars, plotVars, inv>>

\* fdq = 0.0; thetam0 = 0.0; sol = odeint(...); thetam = np.mod(...); fm = diff_eq(...) / (2 * pi)
\* The cell runs in its turn, and may be executed a second time later in the run.
\* odeint on an empty grid copies y0 into an output of no rows: it fails or
\* returns the empty solution.
Solve ==
    /\ pc \in {"solve", "fig", "anim", "run"}
    /\ Len(solves) < 2
    /\ solves' = Append(solves, Len(calls))
    /\ fdq' = cfg.fdq
    /\ thetam0' = cfg.thetam0
    /\ \/ /\ Len(t) = 0
          /\ Raise("odeint")
          /\ defined' = defined \cup {"fdq", "thetam0"}
          /\ UNCHANGED <<sol, thetam, fm>>
       \/ /\ sol' = IF Len(t) = 0 THEN <<>> ELSE odeint(cfg.thetam0, t, fbm, cfg.fdq)
          /\ thetam' = Wrap(sol')
          /\ fm' = Frequency(t, fbm, cfg.fdq)
          /\ defined' = defined \cup {"fdq", "thetam0", "sol", "thetam", "fm"}
          /\ pc' = IF pc = "solve" THEN "fig" ELSE pc
          /\ UNCHANGED err
    /\ UNCHANGED <<cfg, T, dt, nsamples, t, genVars, plotVars, inv>>

\* tinst = []; yangle, yspeed = [], []; the axes limits from min(fm), max(fm),
\* min(thetam), max(thetam); speed_line and angle_line start empty.
\* min() of an empty sequence raises ValueError; for T < 0 the aspect ratio of
\* the inverted time axis is negative, which set_aspect rejects in some
\* matplotlib versions.
Figure ==
    /\ pc = "fig"
    /\ \/ /\ Len(fm) = 0 \/ T < 0
          /\ Raise("ValueError")
          /\ defined' = defined \cup {"tinst", "yangle", "yspeed"}
          /\ UNCHANGED <<speed_line, angle_line>>
       \/ /\ Len(fm) > 0
          /\ speed_line' = <<<<>>, <<>>>>
          /\ angle_line' = <<<<>>, <<>>>>
          /\ defined' = defined \cup {"tinst", "yangle", "yspeed", "speed_line", "angle_line"}
          /\ pc' = "anim"
          /\ UNCHANGED err
    /\ tinst' = <<>>
    /\ yangle' = <<>>
    /\ yspeed' = <<>>
    /\ UNCHANGED <<cfg, T, dt, nsamples, t, genVars, solveVars, dq_theta, calls, inv>>

\* ani = animation.FuncAnimation(fig=fig, func=rotor_position, frames=len(t), ...)
Animate ==
    /\ pc = "anim"
    /\ defined' = defined \cup {"rotor_position", "ani"}
    /\ pc' = "run"
    /\ UNCHANGED <<cfg, err, T, dt, nsamples, t, genVars, solveVars, plotVars, inv>>

\* rotor_position converting the angle to degrees in place: thetam[frame] = theta * 180 / pi.
rotor_positionInPlace(frame) ==
    LET time == t[frame + 1]
        speed == fm[frame + 1]
        theta == thetam[frame + 1]
    IN /\ tinst' = Append(tinst, time)
       /\ yspeed' = Append(yspeed, speed)
       /\ yangle' = Append(yangle, Degrees(theta))
       /\ dq_theta' = theta
       /\ speed_line' = <<tinst', yspeed'>>
       /\ angle_line' = <<tinst', yangle'>>
       /\ thetam' = [thetam EXCEPT ![frame + 1] = Times(180, Over(theta, Pi))]
       /\ UNCHANGED <<t, fm>>

\* rotor_position clearing the lists when a pass starts at frame 0.
rotor_positionRestart(frame) ==
    LET time == t[frame + 1]
        speed == fm[frame + 1]
        theta == thetam[frame + 1]
    IN /\ tinst' = Append(IF frame = 0 THEN <<>> ELSE tinst, time)
       /\ yspeed' = Append(IF frame = 0 THEN <<>> ELSE yspeed, speed)
       /\ yangle' = Append(IF frame = 0 THEN <<>> ELSE yangle, Degrees(theta))
       /\ dq_theta' = theta
       /\ speed_line' = <<tinst', yspeed'>>
       /\ angle_line' = <<tinst', yangle'>>
       /\ UNCHANGED <<t, thetam, fm>>

\* def rotor_position(frame), called by the animation with a frame of range(len(t)).
rotor_position(frame) ==
    LET time == t[frame + 1]
        speed == fm[frame + 1]
        theta == thetam[frame + 1]
    IN /\ tinst' = Append(tinst, time)
       /\ yspeed' = Append(yspeed, speed)
       /\ yangle' = Append(yangle, Degrees(theta))
       /\ dq_theta' = theta
       /\ speed_line' = <<tinst', yspeed'>>
       /\ angle_line' = <<tinst', yangle'>>
       /\ UNCHANGED <<t, thetam, fm>>

\* The frames the animation may draw next: frames=len(t) is range(len(t)), so
\* it starts a pass at frame 0 (the initial draw, a repeat after the last
\* frame, another rendering) or steps to the frame after the last one drawn.
NextFrames ==
    {0} \cup (IF calls # <<>> /\ calls[Len(calls)] + 1 < Len(t)
              THEN {calls[Len(calls)] + 1} ELSE {})

\* The animation draws a frame.
Frame ==
    /\ pc = "run"
    /\ Len(calls) < MaxCalls
    /\ \E frame \in NextFrames :
          /\ rotor_position(frame)
          /\ calls' = Append(calls, frame)
    /\ UNCHANGED <<cfg, pc, err, defined, T, dt, nsamples, genVars,
                   fdq, thetam0, sol, solves, inv>>

Next ==
    \/ SimulationParameters
    \/ GeneratorParameters
    \/ Solve
    \/ Figure
    \/ Animate
    \/ Frame

Spec == Init /\ [][Next]_vars

-----------------------------------------------------------------------------
(* The integrator called from two independent invocations.  Each invocation   *)
(* has its own configuration, time grid and trajectory; the oscillation       *)
(* parameters reach diff_eq through the module's globals Afosc, fosc, damp.   *)

Invocations == 1..2

InvConfigs ==
    [T : {2}, dt : {1}, fbm : {HzUnit}, fdq : {0}, thetam0 : {0},
     Afosc : {0, 1, 2}, fosc : {1, 2}, damp : {0, MaxDamp}]

InitConc ==
    /\ cfg = [T |-> 0, dt |-> 0, fbm |-> 0, Afosc |-> 0, fosc |-> 0, damp |-> 0,
              fdq |-> 0, thetam0 |-> 0]
    /\ pc = "sim"
    /\ err = "none"
    /\ defined = {}
    /\ T = 0 /\ dt = 0 /\ nsamples = 0 /\ t = <<>>
    /\ fbm = 0 /\ Afosc = 0 /\ fosc = 0 /\ damp = 0
    /\ fdq = 0 /\ thetam0 = 0 /\ sol = <<>> /\ thetam = <<>> /\ fm = <<>>
    /\ solves = <<>>
    /\ tinst = <<>> /\ yspeed = <<>> /\ yangle = <<>>
    /\ speed_line = <<>> /\ angle_line = <<>> /\ dq_theta = Fin(0)
    /\ calls = <<>>
    /\ inv \in [Invocations ->
                 {[pc |-> "params", cfg |-> c, t |-> <<>>, sol |-> <<>>,
                   thetam |-> <<>>, fm |-> <<>>] : c \in InvConfigs}]

notebookVars == <<cfg, pc, err, defined, T, dt, nsamples, t, fbm, fdq, thetam0,
                  sol, thetam, fm, solves, plotVars>>

\* Afosc = ...; fosc = ...; damp = ...: the invocation's oscillation parameters,
\* and its own time grid.
InvParameters(i) ==
    /\ inv[i].pc = "params"
    /\ Afosc' = inv[i].cfg.Afosc
    /\ fosc' = inv[i].cfg.fosc
    /\ damp' = inv[i].cfg.damp
    /\ inv' = [inv EXCEPT ![i].pc = "odeint",
                          ![i].t = linspace(inv[i].cfg.T, IntDiv(inv[i].cfg.T, inv[i].cfg.dt) + 1)]
    /\ UNCHANGED notebookVars

\* sol = odeint(diff_eq, thetam0, t, args=(fbm, fdq)); thetam = np.mod(sol[:, 0], 2 * pi)
InvIntegrate(i) ==
    /\ inv[i].pc = "odeint"
    /\ LET s == odeint(inv[i].cfg.thetam0, inv[i].t, inv[i].cfg.fbm, inv[i].cfg.fdq)
       IN inv' = [inv EXCEPT ![i].pc = "fm", ![i].sol = s, ![i].thetam = Wrap(s)]
    /\ UNCHANGED <<Afosc, fosc, damp, notebookVars>>

\* fm = diff_eq(None, t, fbm, fdq) / (2 * pi)
InvFrequency(i) ==
    /\ inv[i].pc = "fm"
    /\ inv' = [inv EXCEPT ![i].pc = "done",
                          ![i].fm = Frequency(inv[i].t, inv[i].cfg.fbm, inv[i].cfg.fdq)]
    /\ UNCHANGED <<Afosc, fosc, damp, notebookVars>>

NextConc ==
    \/ \E i \in Invocations : InvParameters(i)
    \/ \E i \in Invocations : InvIntegrate(i)
    \/ \E i \in Invocations : InvFrequency(i)

SpecConc == InitConc /\ [][NextConc]_vars

\* The trajectory of configuration c computed with c's own oscillation parameters.
Alone(c) ==
    LET tt == linspace(c.T, IntDiv(c.T, c.dt) + 1)
        dd == [k \in 1..Len(tt) |-> Forcing(c.Afosc, c.fosc, c.damp, tt[k], c.fbm, c.fdq)]
    IN [thetam |-> Wrap(Quadrature(c.thetam0, tt, dd)),
        fm |-> [k \in 1..Len(tt) |-> Over(dd[k], TwoPi)]]

-----------------------------------------------------------------------------
(* Properties. *)

\* The configurations the integrator's contract rejects.
InvalidConfiguration == cfg.T <= 0 \/ cfg.dt <= 0 \/ cfg.dt > cfg.T

ValidConfiguration == ~InvalidConfiguration

\* C1: for duration <= 0, step <= 0 or step > duration the run fails before
\* integration, and no time grid, angle sequence or frequency sequence is
\* produced.
C1_InvalidConfigurationFails ==
    (InvalidConfiguration /\ pc # "sim") =>
        (pc = "failed" /\ defined \cap {"t", "sol", "thetam", "fm"} = {})

\* The grid is strictly increasing from 0 to T.
GridSpansDuration ==
    /\ t[1].n = 0
    /\ t[Len(t)].n = T * t[Len(t)].d
    /\ \A i \in 1..(Len(t) - 1) : t[i].n * t[i + 1].d < t[i + 1].n * t[i].d

\* Consecutive points of the grid differ by step.n / step.d.
GridSpacing(n, d) ==
    \A i \in 1..(Len(t) - 1) : (t[i + 1].n * t[i].d - t[i].n * t[i + 1].d) * d = n * t[i].d * t[i + 1].d

C4_SequencesAlignWithGrid ==
    (ValidConfiguration /\ "thetam" \in defined) =>
        /\ Len(thetam) = Len(t)
        /\ Len(fm) = Len(t)
        /\ Len(sol) = Len(t)
        /\ thetam[1] = mod(Fin(thetam0), TwoPi)

\* A trajectory over a grid of at least three points.
C4_Witness ==
    /\ ValidConfiguration
    /\ "thetam" \in defined
    /\ Len(t) >= 3
    /\ pc = "fig"

\* C5: every finite value of the angle sequence is in [0, 2 * pi).
C5_AngleInRange ==
    (ValidConfiguration /\ "thetam" \in defined) =>
        \A i \in 1..Len(thetam) :
            IsFin(thetam[i]) => (0 <= thetam[i].v /\ thetam[i].v < TwoPi)

\* C6: with f_ref = f_base and amplitude 0 the angle at every grid point is the
\* initial angle modulo 2 * pi, whatever the damping.
C6_NoRotationAtRest ==
    (ValidConfiguration /\ "thetam" \in defined /\ fbm = fdq /\ Afosc = 0) =>
        \A i \in 1..Len(thetam) : thetam[i] = mod(Fin(thetam0), TwoPi)

TrajectoryComplete ==
    /\ {"t", "sol", "thetam", "fm"} \subseteq defined
    /\ Len(t) > 0
    /\ Len(thetam) = Len(t)
    /\ Len(fm) = Len(t)

\* C9: the trajectory is complete when rotor_position is called, no call
\* changes t, thetam or fm, and after the first call nothing does.
C9_TrajectoryFixedBeforeFrames ==
    [][/\ (calls' # calls) => (TrajectoryComplete /\ UNCHANGED <<t, thetam, fm>>)
       /\ (calls # <<>>) => UNCHANGED <<t, thetam, fm>>]_vars

\* Frames were drawn, and the solve cell ran again after the first of them.
C9_Witness ==
    /\ ValidConfiguration
    /\ Len(calls) >= 3
    /\ Len(solves) = 2
    /\ solves[2] >= 1

\* C10: after k calls of rotor_position the lists tinst, yspeed and yangle
\* have length k, and their j-th entries are t[f], fm[f] and
\* thetam[f] * 180 / pi for the frame f of the j-th call; the plotted lines
\* hold the same lists.
C10_AccumulatorsFollowCalls ==
    (pc = "run") =>
        /\ Len(tinst) = Len(calls)
        /\ Len(yspeed) = Len(calls)
        /\ Len(yangle) = Len(calls)
        /\ \A j \in 1..Len(calls) :
              /\ tinst[j] = t[calls[j] + 1]
              /\ yspeed[j] = fm[calls[j] + 1]
              /\ yangle[j] = Degrees(thetam[calls[j] + 1])
        /\ calls # <<>> => (speed_line = <<tinst, yspeed>> /\ angle_line = <<tinst, yangle>>)

\* The animation has gone through every frame and started over: more calls
\* than grid points.
C10_Witness ==
    /\ ValidConfiguration
    /\ pc = "run"
    /\ Len(calls) > Len(t)
    /\ \A f \in 0..(Len(t) - 1) : \E j \in 1..Len(calls) : calls[j] = f

\* C3: an invocation that finished holds the trajectory its own configuration
\* gives when run alone.
C3_InvocationsAreIndependent ==
    \A i \in Invocations :
        inv[i].pc = "done" =>
            (inv[i].thetam = Alone(inv[i].cfg).thetam /\ inv[i].fm = Alone(inv[i].cfg).fm)
====
